---- MODULE Spec2Model ----
(***************************************************************************)
(* The ctdb private/public address registries of middlewared               *)
(* (plugins/cluster_linux/ctdb_private.py, ctdb_public.py,                 *)
(* ctdb_general.py) and the shared volume they live on                     *)
(* (ctdb_shared_volume.py) as a state machine.                             *)
(*                                                                         *)
(* Python strings are sequences of one-character strings, so that          *)
(* formatting ('<ip>/<netmask> <interface>'), parsing (split) and the      *)
(* substring test (x in line) are computed as the code computes them.      *)
(* A store file is its character content; lines are obtained with          *)
(* splitlines as the code does.                                            *)
(***************************************************************************)
EXTENDS Integers, Sequences, FiniteSets, TLC

VARIABLES
    ctdb,         \* service.started('ctdb')
    glusterd,     \* service.started('glusterd')
    mounted,      \* pathlib.Path(SHARED_VOL).is_mount()
    status,       \* ctdb.general.status: the flags_str of every node
    daemonNodes,  \* ctdb.general.listnodes: the addresses the daemon loaded
    daemonIps,    \* ctdb.general.ips: the public ips the daemon loaded
    file,         \* file[c]: the canonical store file (GM_PRI_IP_FILE, GM_PUB_IP_FILE)
    etc,          \* etc[c]: what is at the local path (ETC_PRI_IP_FILE, ETC_PUB_IP_FILE)
    cur,          \* cur[c]: the job holding the lock PRI_LOCK / PUB_LOCK
    last,         \* the operation that completed last, nothing having happened since
    queue,        \* queue[c]: the jobs waiting for the lock of class c, in arrival order
    hist,         \* what the jobs did so far: arrived, started, waited, accepted
    volume,       \* the gluster volume CTDB_VOL_NAME as volume.status_detail reports it
    peers,        \* gluster.peer.pool: hostname and connection state of every peer
    eventsd,      \* service.started('glustereventsd')
    vjob,         \* vjob[op]: the running job of ctdb.shared.volume.<op>
    vlast         \* the ctdb.shared.volume job that completed last

vars == <<ctdb, glusterd, mounted, status, daemonNodes, daemonIps,
          file, etc, cur, last, queue, hist,
          volume, peers, eventsd, vjob, vlast>>

volVars == <<volume, peers, eventsd, vjob, vlast>>

envVars == <<ctdb, glusterd, mounted, status, daemonNodes, daemonIps, volVars>>

jobVars == <<queue, hist>>

(***************************************************************************)
(* Bounds of the model.                                                    *)
(***************************************************************************)
\* lines a store file may grow to
MaxLines == 2
\* nodes in the daemon's status
MaxNodes == 1

Classes == {"pri", "pub"}

(***************************************************************************)
(* Strings.                                                                *)
(***************************************************************************)
NL == "\n"

\* '10.0.0.5'
IP_A == <<"1", "0", ".", "0", ".", "0", ".", "5">>
\* '10.0.0.50'
IP_B == <<"1", "0", ".", "0", ".", "0", ".", "5", "0">>
\* '10.0.0.1': a static address of this node (interface.ip_in_use)
IP_NODE == <<"1", "0", ".", "0", ".", "0", ".", "1">>
\* 'fd00::5'
IP_V6 == <<"f", "d", "0", "0", ":", ":", "5">>
\* 'eth0': an interface of this node (interface.query)
ETH0 == <<"e", "t", "h", "0">>
\* 'eth9': no interface of this node
ETH9 == <<"e", "t", "h", "9">>

NodeIps == {IP_NODE}
NodeInts == {ETH0}

Digits == <<"0", "1", "2", "3", "4", "5", "6", "7", "8", "9">>

\* x in s, for a character x and a string s
CharIn(x, s) == \E i \in 1..Len(s) : s[i] = x

\* x in s, for strings: x occurs in s as a substring
StrIn(x, s) ==
    \E i \in 0..(Len(s) - Len(x)) : SubSeq(s, i + 1, i + Len(x)) = x

\* str(n) for a non-negative integer
RECURSIVE NatToStr(_)
NatToStr(n) ==
    IF n < 10 THEN <<Digits[n + 1]>>
    ELSE NatToStr(n \div 10) \o <<Digits[(n % 10) + 1]>>

\* str(n), as the f-string formats an integer
IntToStr(n) == IF n < 0 THEN <<"-">> \o NatToStr(0 - n) ELSE NatToStr(n)

DigitValue(c) == CHOOSE d \in 0..9 : Digits[d + 1] = c

\* int(s) for a string of decimal digits
RECURSIVE StrToNat(_)
StrToNat(s) ==
    IF Len(s) = 0 THEN 0
    ELSE 10 * StrToNat(SubSeq(s, 1, Len(s) - 1)) + DigitValue(s[Len(s)])

\* int(s)
StrToInt(s) ==
    IF Len(s) > 0 /\ s[1] = "-" THEN 0 - StrToNat(Tail(s)) ELSE StrToNat(s)

\* s.split(sep) for a one-character sep: empty parts are kept
RECURSIVE SplitAcc(_, _, _, _)
SplitAcc(s, sep, part, acc) ==
    IF s = <<>> THEN Append(acc, part)
    ELSE IF Head(s) = sep THEN SplitAcc(Tail(s), sep, <<>>, Append(acc, part))
    ELSE SplitAcc(Tail(s), sep, Append(part, Head(s)), acc)

Split(s, sep) == SplitAcc(s, sep, <<>>, <<>>)

\* s.split(): split on runs of whitespace, no empty parts
RECURSIVE SplitWsAcc(_, _, _)
SplitWsAcc(s, part, acc) ==
    IF s = <<>> THEN (IF part = <<>> THEN acc ELSE Append(acc, part))
    ELSE IF Head(s) \in {" ", NL}
         THEN SplitWsAcc(Tail(s), <<>>, IF part = <<>> THEN acc ELSE Append(acc, part))
    ELSE SplitWsAcc(Tail(s), Append(part, Head(s)), acc)

SplitWs(s) == SplitWsAcc(s, <<>>, <<>>)

\* s.splitlines(): the lines of a file's content, without their newlines
RECURSIVE SplitLinesAcc(_, _, _)
SplitLinesAcc(s, part, acc) ==
    IF s = <<>> THEN (IF part = <<>> THEN acc ELSE Append(acc, part))
    ELSE IF Head(s) = NL THEN SplitLinesAcc(Tail(s), <<>>, Append(acc, part))
    ELSE SplitLinesAcc(Tail(s), Append(part, Head(s)), acc)

SplitLines(s) == SplitLinesAcc(s, <<>>, <<>>)

\* ''.join(map(lambda x: x + '\n', lines)): what f.writelines writes
RECURSIVE JoinLines(_)
JoinLines(lines) ==
    IF lines = <<>> THEN <<>>
    ELSE Head(lines) \o <<NL>> \o JoinLines(Tail(lines))

(***************************************************************************)
(* Python values: query of the private class returns strings, query of     *)
(* the public class returns dicts.                                         *)
(***************************************************************************)
PyStr(s) == [type |-> "str", val |-> s]

\* x in xs for Python lists: some element equals x
PyIn(x, xs) == \E i \in 1..Len(xs) : xs[i] = x

\* what is at the local path /etc/ctdb/nodes, /etc/ctdb/public_addresses
EtcStates == {"absent", "file", "link_canon", "link_other", "link_missing"}

\* etc_file.is_symlink()
IsSymlink(e) == e \in {"link_canon", "link_other", "link_missing"}

\* etc_file.resolve() == ctdb_file
ResolvesToStore(e) == e = "link_canon"

\* etc_file.exists(): follows a symlink to its target
EtcExists(e, storeExists) ==
    \/ e = "file"
    \/ e = "link_other"
    \/ e = "link_canon" /\ storeExists

NoFile == [exists |-> FALSE, content |-> <<>>]

\* ctdb_file.touch(exist_ok=True)
Touch(f) == [exists |-> TRUE, content |-> f.content]

\* f.read().splitlines()
ReadLines(f) == SplitLines(f.content)

\* open(file, 'w') in place of open(file, 'a'): the write replaces the content
AppendLineTruncating(content, line) == line \o <<NL>>

\* with open(file, 'a') as f: f.write(line + '\n')
AppendLine(content, line) == content \o line \o <<NL>>

(***************************************************************************)
(* ctdb.general.healthy                                                    *)
(***************************************************************************)
\* not any(...) alone: true of the list with no nodes
HealthyWhenNoNodeFails ==
    ~ (\E i \in 1..Len(status) : status[i] # "OK")

healthy ==
    IF Len(status) > 0
    THEN ~ (\E i \in 1..Len(status) : status[i] # "OK")
    ELSE FALSE

(***************************************************************************)
(* ctdb.private.ips.query                                                  *)
(***************************************************************************)
\* a query that reads the store file whenever it can, the daemon running or not
PriQueryPrefersFile ==
    IF /\ mounted
       /\ file["pri"].exists
       /\ IsSymlink(etc["pri"])
       /\ ResolvesToStore(etc["pri"])
    THEN LET lines == ReadLines(file["pri"])
         IN  [i \in 1..Len(lines) |-> PyStr(lines[i])]
    ELSE [i \in 1..Len(daemonNodes) |-> PyStr(daemonNodes[i])]

PriQuery ==
    IF ctdb
    THEN [i \in 1..Len(daemonNodes) |-> PyStr(daemonNodes[i])]
    ELSE IF /\ mounted
            /\ file["pri"].exists
            /\ IsSymlink(etc["pri"])
            /\ ResolvesToStore(etc["pri"])
         THEN LET lines == ReadLines(file["pri"])
              IN  [i \in 1..Len(lines) |-> PyStr(lines[i])]
         ELSE <<>>

(***************************************************************************)
(* ctdb.public.ips.query                                                   *)
(***************************************************************************)
\* the dict built from one line of the public store file
PubEntry(i) ==
    [type |-> "dict",
     id |-> Split(i, "/")[1],
     public_ip |-> Split(i, "/")[1],
     netmask |-> StrToInt(SplitWs(Split(i, "/")[2])[1]),
     interfaces |-> SplitWs(i)[Len(SplitWs(i))]]

PubQuery ==
    IF ctdb
    THEN [i \in 1..Len(daemonIps) |->
             [type |-> "dict", id |-> daemonIps[i], public_ip |-> daemonIps[i]]]
    ELSE IF /\ mounted
            /\ file["pub"].exists
            /\ IsSymlink(etc["pub"])
            /\ ResolvesToStore(etc["pub"])
         THEN LET lines == ReadLines(file["pub"])
              IN  [i \in 1..Len(lines) |-> PubEntry(lines[i])]
         ELSE <<>>

\* the ids of a list of dicts
Ids(xs) == [i \in 1..Len(xs) |-> xs[i].id]

(***************************************************************************)
(* Validation.  A validation returns [exc, errors]: the exception raised   *)
(* ("none" when it returns) and the keys added to verrors.                 *)
(***************************************************************************)
Passed == [exc |-> "none", errors |-> {}]

Raised(exc, errors) == [exc |-> exc, errors |-> errors]

\* verrors.add of the two precondition checks
PreconditionErrors ==
    (IF ~ glusterd THEN {"glusterd"} ELSE {})
        \cup (IF ~ mounted THEN {"not_mounted"} ELSE {})

\* ctdb.private.ips.common_validation
PriCommonValidation(pri_ip, delete) ==
    IF PreconditionErrors # {}
    THEN Raised("ValidationErrors", PreconditionErrors)
    ELSE LET cur_ips == PriQuery \o PubQuery
         IN  IF ~ delete
             THEN IF PyIn(PyStr(pri_ip), cur_ips)
                  THEN Raised("ValidationErrors", {"exists"})
                  ELSE Passed
             ELSE IF ~ PyIn(PyStr(pri_ip), cur_ips)
                  THEN Raised("ValidationErrors", {"not_exists"})
                  ELSE Passed

netmask_min == 0
v4max == 32
v6max == 128

\* the netmask check of ctdb.public.ips.common_validation
BadNetmask(ip, netmask) ==
    IF CharIn(":", ip) /\ netmask > v6max THEN TRUE
    ELSE IF netmask > v4max THEN TRUE
    ELSE IF netmask < netmask_min THEN TRUE
    ELSE FALSE

\* ctdb.public.ips.common_validation
PubCommonValidation(data, delete) ==
    LET first == PreconditionErrors
                     \cup (IF data.ip \in NodeIps THEN {"in_use"} ELSE {})
    IN  IF first # {}
        THEN Raised("ValidationErrors", first)
        ELSE IF Len(PriQuery) > 0
        \* i['id'] of a str
        THEN Raised("TypeError", {})
        ELSE LET cur_ips == Ids(PubQuery)
                 second ==
                     IF ~ delete
                     THEN (IF BadNetmask(data.ip, data.netmask)
                           THEN {"netmask"} ELSE {})
                          \cup (IF data.interface \notin NodeInts
                                THEN {"interface"} ELSE {})
                          \cup (IF PyIn(data.ip, cur_ips)
                                THEN {"exists"} ELSE {})
                     ELSE (IF ~ PyIn(data.ip, cur_ips)
                           THEN {"not_exists"} ELSE {})
             IN  IF second # {}
                 THEN Raised("ValidationErrors", second)
                 ELSE Passed

\* self.get_instance(id) of do_delete: the entry of query whose id is id
GetInstance(id) ==
    IF PyIn(id, Ids(PubQuery)) THEN Passed
    ELSE Raised("ValidationError", {"instance"})

(***************************************************************************)
(* update_file.  Returns the store file and the local path as it leaves    *)
(* them, with what it returned or raised.                                  *)
(***************************************************************************)
\* the symlink block of ctdb.private.ips.update_file, after the touch
PriEnsureLinked(e) ==
    LET delete_it == EtcExists(e, TRUE)
                         /\ (~ IsSymlink(e) \/ ~ ResolvesToStore(e))
        symlink_it == ~ EtcExists(e, TRUE)
        unlinked == IF delete_it THEN "absent" ELSE e
    IN  IF symlink_it
        THEN IF unlinked = "absent"
             THEN [etc |-> "link_canon", ok |-> TRUE]
             \* symlink_to raises FileExistsError on a dangling symlink
             ELSE [etc |-> unlinked, ok |-> FALSE]
        ELSE [etc |-> unlinked, ok |-> TRUE]

\* the first index of x in lines, 0 when there is none
Index(lines, x) ==
    IF \E i \in 1..Len(lines) : lines[i] = x
    THEN CHOOSE i \in 1..Len(lines) :
             lines[i] = x /\ \A j \in 1..(i - 1) : lines[j] # x
    ELSE 0

\* a delete that drops the line instead of commenting it out
PriTombstoneDropsLine(lines, pri_ip) ==
    SubSeq(lines, 1, Index(lines, pri_ip) - 1)
        \o SubSeq(lines, Index(lines, pri_ip) + 1, Len(lines))

\* the rewrite of the delete branch of ctdb.private.ips.update_file
PriTombstone(lines, pri_ip) ==
    [lines EXCEPT ![Index(lines, pri_ip)] = <<"#">> \o pri_ip]

\* the health of the cluster is checked whether or not the file exists
PriHealthGateIgnoresFile(f) == ctdb /\ ~ healthy

\* the health check of ctdb.private.ips.update_file: update_file returns
\* False when it holds
PriHealthGate(f) == f.exists /\ ctdb /\ ~ healthy

\* an update_file that repairs the local path before it asks for the health
\* of the cluster
PriUpdateFileLinksFirst(f, e, pri_ip, delete) ==
    LET touched == Touch(f)
        link == PriEnsureLinked(e)
    IN  IF PriHealthGate(f)
        THEN [file |-> touched, etc |-> link.etc, ret |-> FALSE, exc |-> "none"]
        ELSE IF ~ link.ok
        THEN [file |-> touched, etc |-> link.etc, ret |-> FALSE, exc |-> "none"]
        ELSE IF ~ delete
        THEN [file |-> [touched EXCEPT !.content = AppendLine(@, pri_ip)],
              etc |-> link.etc, ret |-> TRUE, exc |-> "none"]
        ELSE LET lines == ReadLines(touched)
             IN  IF Index(lines, pri_ip) = 0
                 THEN [file |-> touched, etc |-> link.etc,
                       ret |-> FALSE, exc |-> "ValueError"]
                 ELSE [file |-> [touched EXCEPT !.content =
                                    JoinLines(PriTombstone(lines, pri_ip))],
                       etc |-> link.etc, ret |-> TRUE, exc |-> "none"]

\* an update_file whose create turns the tombstone of pri_ip, when there is
\* one, back into an active line instead of appending
PriUpdateFileRevives(f, e, pri_ip, delete) ==
    IF PriHealthGate(f)
    THEN [file |-> f, etc |-> e, ret |-> FALSE, exc |-> "none"]
    ELSE LET touched == Touch(f)
             link == PriEnsureLinked(e)
             lines == ReadLines(touched)
             dead == Index(lines, <<"#">> \o pri_ip)
         IN  IF ~ link.ok
             THEN [file |-> touched, etc |-> link.etc, ret |-> FALSE, exc |-> "none"]
             ELSE IF ~ delete
             THEN [file |-> [touched EXCEPT !.content =
                                IF dead = 0 THEN AppendLine(@, pri_ip)
                                ELSE JoinLines([lines EXCEPT ![dead] = pri_ip])],
                   etc |-> link.etc, ret |-> TRUE, exc |-> "none"]
             ELSE IF Index(lines, pri_ip) = 0
             THEN [file |-> touched, etc |-> link.etc, ret |-> FALSE, exc |-> "ValueError"]
             ELSE [file |-> [touched EXCEPT !.content =
                                JoinLines(PriTombstone(lines, pri_ip))],
                   etc |-> link.etc, ret |-> TRUE, exc |-> "none"]

\* ctdb.private.ips.update_file
PriUpdateFile(f, e, pri_ip, delete) ==
    IF PriHealthGate(f)
    THEN [file |-> f, etc |-> e, ret |-> FALSE, exc |-> "none"]
    ELSE LET touched == Touch(f)
             link == PriEnsureLinked(e)
         IN  IF ~ link.ok
             THEN [file |-> touched, etc |-> link.etc, ret |-> FALSE, exc |-> "none"]
             ELSE IF ~ delete
             THEN [file |-> [touched EXCEPT !.content = AppendLine(@, pri_ip)],
                   etc |-> link.etc, ret |-> TRUE, exc |-> "none"]
             ELSE LET lines == ReadLines(touched)
                  IN  IF Index(lines, pri_ip) = 0
                      THEN [file |-> touched, etc |-> link.etc,
                            ret |-> FALSE, exc |-> "ValueError"]
                      ELSE [file |-> [touched EXCEPT !.content =
                                         JoinLines(PriTombstone(lines, pri_ip))],
                            etc |-> link.etc, ret |-> TRUE, exc |-> "none"]

\* the symlink block of ctdb.public.ips.update_file, after the touch
PubEnsureLinked(e) ==
    LET delete_it == EtcExists(e, TRUE)
                         /\ (~ IsSymlink(e) \/ ~ ResolvesToStore(e))
        symlink_it == ~ EtcExists(e, TRUE)
        unlinked == IF delete_it THEN "absent" ELSE e
    IN  IF symlink_it
        THEN IF unlinked = "absent"
             THEN [etc |-> "link_canon", ok |-> TRUE]
             ELSE [etc |-> unlinked, ok |-> FALSE]
        ELSE [etc |-> unlinked, ok |-> TRUE]

\* entry = f'{data["ip"]}/{data["netmask"]} {data["interface"]}'
PubEntryLine(data) ==
    data.ip \o <<"/">> \o IntToStr(data.netmask) \o <<" ">> \o data.interface

\* the index of next(i for i in lines if data['ip'] in i), 0 when there is none
FirstContaining(lines, ip) ==
    IF \E i \in 1..Len(lines) : StrIn(ip, lines[i])
    THEN CHOOSE i \in 1..Len(lines) :
             StrIn(ip, lines[i]) /\ \A j \in 1..(i - 1) : ~ StrIn(ip, lines[j])
    ELSE 0

\* lines.remove(x): drops the first element equal to x
Remove(lines, x) ==
    LET k == Index(lines, x)
    IN  SubSeq(lines, 1, k - 1) \o SubSeq(lines, k + 1, Len(lines))

\* every line containing the ip is dropped, not the first one only
PubRemoveAllMatching(lines, ip) == SelectSeq(lines, LAMBDA l : ~ StrIn(ip, l))

\* lines.remove(next(i for i in lines if data['ip'] in i))
PubRemove(lines, ip) == Remove(lines, lines[FirstContaining(lines, ip)])

\* ctdb.public.ips.update_file
PubUpdateFile(f, e, data, delete) ==
    LET touched == Touch(f)
        link == PubEnsureLinked(e)
    IN  IF ~ link.ok
        THEN [file |-> touched, etc |-> link.etc, exc |-> "CallError"]
        ELSE IF ~ delete
        THEN [file |-> [touched EXCEPT !.content = AppendLine(@, PubEntryLine(data))],
              etc |-> link.etc, exc |-> "none"]
        ELSE LET lines == ReadLines(touched)
             IN  IF FirstContaining(lines, data.ip) = 0
                 THEN [file |-> touched, etc |-> link.etc, exc |-> "StopIteration"]
                 ELSE [file |-> [touched EXCEPT !.content =
                                    JoinLines(PubRemove(lines, data.ip))],
                       etc |-> link.etc, exc |-> "none"]

(***************************************************************************)
(* Jobs.  @job(lock=PRI_LOCK) and @job(lock=PUB_LOCK): the jobs of one     *)
(* class run one at a time; cur[c] is the one holding the lock.            *)
(***************************************************************************)
NoJob == [op |-> "none", data |-> [ip |-> <<>>], pc |-> "idle"]

NoOp == [cls |-> "none", op |-> "none", data |-> [ip |-> <<>>],
         exc |-> "none", errors |-> {}]

\* the calls of ctdb.private.ips.create and ctdb.private.ips.delete: one
\* address, whose lines '10.0.0.5' and '#10.0.0.5' tell the positions of the
\* private store apart
PriRequests ==
    {[op |-> o, data |-> [ip |-> i]] : o \in {"create", "delete"}, i \in {IP_A}}

\* the calls of ctdb.public.ips.create
PubCreateData ==
    {[ip |-> IP_A, netmask |-> 24, interface |-> ETH0],
     [ip |-> IP_B, netmask |-> 24, interface |-> ETH0],
     [ip |-> IP_NODE, netmask |-> 24, interface |-> ETH0],
     [ip |-> IP_A, netmask |-> 33, interface |-> ETH0],
     [ip |-> IP_A, netmask |-> 24, interface |-> ETH9]}

\* the calls of ctdb.public.ips.create and ctdb.public.ips.delete
PubRequests ==
    {[op |-> "create", data |-> d] : d \in PubCreateData}
        \cup {[op |-> "delete", data |-> [ip |-> i]] : i \in {IP_A, IP_B}}

Requests(c) == IF c = "pri" THEN PriRequests ELSE PubRequests

\* no job waits
NoQueue == [c \in Classes |-> <<>>]

\* no job has arrived
NoHist == [arrived |-> [c \in Classes |-> 0],
           started |-> [c \in Classes |-> 0],
           waited |-> [c \in Classes |-> {}],
           accepted |-> [c \in Classes |-> <<>>]]

\* the record of a completed operation
Completed(c, job, exc, errors) ==
    [cls |-> c, op |-> job.op, data |-> job.data, exc |-> exc, errors |-> errors]

\* what the job of class c runs before update_file
Validation(c, job) ==
    IF c = "pri"
    THEN PriCommonValidation(job.data.ip, job.op = "delete")
    ELSE IF job.op = "delete"
         THEN IF GetInstance(job.data.ip).exc # "none"
              THEN GetInstance(job.data.ip)
              ELSE PubCommonValidation(job.data, TRUE)
         ELSE PubCommonValidation(job.data, FALSE)

\* the job of req runs up to the call of update_file
Run(c, req) ==
    /\ LET v == Validation(c, req)
       IN  IF v.exc = "none"
           THEN /\ cur' = [cur EXCEPT ![c] =
                              [op |-> req.op, data |-> req.data, pc |-> "update"]]
                /\ UNCHANGED last
           ELSE /\ last' = Completed(c, req, v.exc, v.errors)
                /\ UNCHANGED cur
    /\ UNCHANGED <<envVars, file, etc>>

\* create/delete is called when no job holds the lock of its class: it takes
\* the lock and runs up to the call of update_file
Begin(c, req) ==
    /\ cur[c] = NoJob
    /\ req.op = "create" => Len(ReadLines(file[c])) < MaxLines
    /\ Run(c, req)
    /\ UNCHANGED jobVars

\* what update_file of class c does for job, with the exception the job ends in
UpdateFile(c, job) ==
    IF c = "pri"
    THEN LET r == PriUpdateFile(file[c], etc[c], job.data.ip, job.op = "delete")
         IN  [file |-> r.file, etc |-> r.etc,
              exc |-> IF r.exc # "none" THEN r.exc
                      ELSE IF ~ r.ret THEN "CallError" ELSE "none"]
    ELSE PubUpdateFile(file[c], etc[c], job.data, job.op = "delete")

\* the job holding the lock runs from the call of update_file to its end
Complete(c) ==
    /\ cur[c].pc = "update"
    /\ LET r == UpdateFile(c, cur[c])
       IN  /\ file' = [file EXCEPT ![c] = r.file]
           /\ etc' = [etc EXCEPT ![c] = r.etc]
           /\ last' = Completed(c, cur[c], r.exc, {})
    /\ cur' = [cur EXCEPT ![c] = NoJob]
    /\ UNCHANGED envVars

\* create/delete from the call of update_file to the end of the job
Update(c) == Complete(c) /\ UNCHANGED jobVars

(***************************************************************************)
(* The environment: services, the mount and the daemon.                    *)
(***************************************************************************)
Flags == {"OK", "UNHEALTHY"}

StatusValues == UNION {[1..n -> Flags] : n \in 0..MaxNodes}

\* the lines of the store file of class c the daemon can read at its local path
DaemonReads(c) ==
    IF mounted /\ file[c].exists /\ etc[c] = "link_canon"
    THEN ReadLines(file[c])
    ELSE <<>>

\* the lines of lines that do not start with '#', in order
RECURSIVE ActiveLines(_)
ActiveLines(lines) ==
    IF lines = <<>> THEN <<>>
    ELSE IF Len(Head(lines)) > 0 /\ Head(lines)[1] = "#"
         THEN ActiveLines(Tail(lines))
         ELSE <<Head(lines)>> \o ActiveLines(Tail(lines))

\* the daemon loads the node and public address files
DaemonLoad ==
    /\ daemonNodes' = ActiveLines(DaemonReads("pri"))
    /\ daemonIps' = LET lines == DaemonReads("pub")
                    IN  [i \in 1..Len(lines) |-> Split(lines[i], "/")[1]]

Idle == \A c \in Classes : cur[c] = NoJob

GlusterdToggle ==
    /\ Idle
    /\ glusterd' = ~ glusterd
    /\ last' = NoOp
    /\ UNCHANGED <<ctdb, mounted, status, daemonNodes, daemonIps, file, etc, cur, jobVars, volVars>>

\* the shared volume is mounted
Mount ==
    /\ ~ mounted
    /\ glusterd
    /\ mounted' = TRUE
    /\ last' = NoOp
    /\ UNCHANGED <<ctdb, glusterd, status, daemonNodes, daemonIps, file, etc, cur, jobVars, volVars>>

\* the shared volume is unmounted, not under a running update_file
Umount ==
    /\ mounted
    /\ Idle
    /\ mounted' = FALSE
    /\ last' = NoOp
    /\ UNCHANGED <<ctdb, glusterd, status, daemonNodes, daemonIps, file, etc, cur, jobVars, volVars>>

CtdbStart ==
    /\ ~ ctdb
    /\ ctdb' = TRUE
    /\ status' \in StatusValues
    /\ DaemonLoad
    /\ last' = NoOp
    /\ UNCHANGED <<glusterd, mounted, file, etc, cur, jobVars, volVars>>

CtdbStop ==
    /\ ctdb
    /\ ctdb' = FALSE
    /\ status' = <<>>
    /\ daemonNodes' = <<>>
    /\ daemonIps' = <<>>
    /\ last' = NoOp
    /\ UNCHANGED <<glusterd, mounted, file, etc, cur, jobVars, volVars>>

\* the health of the cluster changes
StatusChange ==
    /\ ctdb
    /\ status' \in StatusValues \ {status}
    /\ last' = NoOp
    /\ UNCHANGED <<ctdb, glusterd, mounted, daemonNodes, daemonIps, file, etc, cur, jobVars, volVars>>

(***************************************************************************)
(* The shared volume service (ctdb_shared_volume.py).                      *)
(*                                                                         *)
(* A volume job is a sequence of steps; vjob[op] holds the step the one    *)
(* running job of <op> is at, the commands it invoked so far (log), who    *)
(* called it (by) and its local result variable (flag).  create calls      *)
(* mount and delete calls umount as a job of their own, and wait for it.   *)
(***************************************************************************)
\* peers the pool may hold
MaxPeers == 4

VolOps == {"create", "delete", "mount", "umount"}

\* the variables of the address registries, which no volume job touches
regVars == <<ctdb, status, daemonNodes, daemonIps, file, etc, cur, last, queue, hist>>

NoVolume == [exists |-> FALSE, type |-> "none", replica |-> 0,
             bricks |-> <<>>, started |-> FALSE]

\* was: whether glustereventsd ran when the mount or umount job started
NoVJob == [pc |-> "idle", by |-> "none", log |-> <<>>, flag |-> FALSE, out |-> "none",
           was |-> TRUE]

NoVLast == [op |-> "none", by |-> "none", ret |-> "none", log |-> <<>>]

Hostname(i) == <<"node", i>>

\* every pool of at most MaxPeers peers, each connected or not
PeerPools ==
    UNION { { [i \in 1..n |-> [hostname |-> Hostname(i), connected |-> f[i]]]
              : f \in [1..n -> {"Connected", "Disconnected"}] }
            : n \in 0..MaxPeers }

\* systemdataset.config()['path'] joined with CTDB_VOL_NAME
ctdb_sysds_path == "/sysds/ctdb_shared_vol"

\* peer + ':' + ctdb_sysds_path
Brick(peer) == <<peer, ":", ctdb_sysds_path>>

construct_gluster_volume_create_data(ps) ==
    [bricks  |-> [i \in 1..Len(ps) |-> Brick(ps[i])],
     replica |-> Len(ps),
     force   |-> TRUE]

\* every peer of the pool, connected or not
AllPeers(pool) == [i \in 1..Len(pool) |-> pool[i].hostname]

\* con_peers: the hostnames of the peers that are connected
ConnectedPeers(pool) ==
    LET con == SelectSeq(pool, LAMBDA p : p.connected = "Connected")
    IN  [i \in 1..Len(con) |-> con[i].hostname]

\* the volume volume.create makes of the payload; it is not started
CreatedVolume(req) ==
    [exists |-> TRUE, type |-> "REPLICATE", replica |-> req.replica,
     bricks |-> req.bricks, started |-> FALSE]

\* a helper that takes any volume of the name, whatever its type, replica
\* and brick count
ExistsAndStartedAnyTopology(v) ==
    IF ~ glusterd
    THEN [exc |-> "CallError", exists |-> FALSE, started |-> FALSE, volume |-> v, log |-> <<>>]
    ELSE IF ~ v.exists
    THEN [exc |-> "none", exists |-> FALSE, started |-> FALSE, volume |-> v, log |-> <<>>]
    ELSE IF ~ v.started
    THEN [exc |-> "none", exists |-> TRUE, started |-> TRUE,
          volume |-> [v EXCEPT !.started = TRUE], log |-> <<"start">>]
    ELSE [exc |-> "none", exists |-> TRUE, started |-> TRUE, volume |-> v, log |-> <<>>]

\* shared_volume_exists_and_started, run on volume v: what it returns or
\* raises, the volume it leaves and the commands it invoked.  The gluster
\* command line needs glusterd: without it run_method raises.
shared_volume_exists_and_started(v) ==
    IF ~ glusterd
    THEN [exc |-> "CallError", exists |-> FALSE, started |-> FALSE, volume |-> v, log |-> <<>>]
    ELSE IF ~ v.exists
    THEN [exc |-> "none", exists |-> FALSE, started |-> FALSE, volume |-> v, log |-> <<>>]
    ELSE IF v.type # "REPLICATE"
    THEN [exc |-> "CallError", exists |-> FALSE, started |-> FALSE, volume |-> v, log |-> <<>>]
    ELSE IF v.replica < 3 \/ Len(v.bricks) < 3
    THEN [exc |-> "CallError", exists |-> FALSE, started |-> FALSE, volume |-> v, log |-> <<>>]
    ELSE IF ~ v.started
    THEN [exc |-> "none", exists |-> TRUE, started |-> TRUE,
          volume |-> [v EXCEPT !.started = TRUE], log |-> <<"start">>]
    ELSE [exc |-> "none", exists |-> TRUE, started |-> TRUE, volume |-> v, log |-> <<>>]

\* every job of the two methods runs under one lock
LockOfPerMethod(op) == op

\* the four methods are declared with one and the same lock
LockOfOneLock(op) == "CTDB_LOCK"

\* the lock a method is declared with
LockOf(op) ==
    IF op \in {"mount", "umount"} THEN "MOUNT_UMOUNT_LOCK" ELSE "CRE_OR_DEL_LOCK"

Running(op) == vjob[op].pc # "idle"

\* a job of op starts when no running job holds its lock
VolLockFree(op) == \A o \in VolOps : Running(o) => LockOf(o) # LockOf(op)

\* the job of op called by <by> ends with ret: a calling job waiting for it
\* goes on, or raises what the job raised (wait_sync(raise_error=True))
JobEnds(op, by, ret, log) ==
    IF by = "user"
    THEN /\ vjob' = [vjob EXCEPT ![op] = NoVJob]
         /\ vlast' = [op |-> op, by |-> by, ret |-> ret, log |-> log]
    ELSE IF ret = "CallError"
    THEN /\ vjob' = [vjob EXCEPT ![op] = NoVJob, ![by] = NoVJob]
         /\ vlast' = [op |-> by, by |-> "user", ret |-> "CallError", log |-> vjob[by].log]
    ELSE /\ vjob' = [vjob EXCEPT ![op] = NoVJob,
                                 ![by] = [@ EXCEPT !.pc = "return", !.log = @ \o <<op>>,
                                                   !.out = ret]]
         /\ vlast' = [op |-> op, by |-> by, ret |-> ret, log |-> log]

\* mount, up to service.stop: whether it goes on to the mount command
MountChecks(v, mkdir) ==
    IF ~ glusterd
    THEN [go |-> FALSE, ret |-> "False", volume |-> v, log |-> <<>>]
    ELSE LET r == shared_volume_exists_and_started(v)
         IN  IF r.exc # "none"
             THEN [go |-> FALSE, ret |-> r.exc, volume |-> r.volume, log |-> r.log]
             ELSE IF ~ r.exists \/ ~ r.started
             THEN [go |-> FALSE, ret |-> "False", volume |-> r.volume, log |-> r.log]
             ELSE IF ~ mkdir
             THEN [go |-> FALSE, ret |-> "CallError", volume |-> r.volume, log |-> r.log]
             ELSE [go |-> TRUE, ret |-> "none", volume |-> r.volume,
                   log |-> r.log \o <<"events_stop">>]

VolumeMount(by) ==
    /\ VolLockFree("mount")
    /\ IF by = "user" THEN TRUE ELSE vjob[by].pc = "call"
    /\ \E mkdir \in BOOLEAN :
         LET m == MountChecks(volume, mkdir)
         IN  /\ volume' = m.volume
             /\ IF m.go
                THEN /\ eventsd' = FALSE
                     /\ vjob' = [vjob EXCEPT !["mount"] =
                                   [pc |-> "cmd", by |-> by, log |-> m.log,
                                    flag |-> FALSE, out |-> "none", was |-> eventsd]]
                     /\ UNCHANGED vlast
                ELSE /\ UNCHANGED eventsd
                     /\ JobEnds("mount", by, m.ret, m.log)
    /\ UNCHANGED <<regVars, glusterd, mounted, peers>>

\* what the mount command may do
MountOutcomes == {"ok", "already", "fail", "exception"}

VolumeMountCommand ==
    /\ vjob["mount"].pc = "cmd"
    /\ \E out \in MountOutcomes :
         /\ out = "already" => mounted
         /\ mounted' = (mounted \/ out = "ok")
         /\ vjob' = [vjob EXCEPT !["mount"] =
                       [@ EXCEPT !.pc = "finally", !.log = @ \o <<"mount">>,
                                 !.flag = (out \in {"ok", "already"}), !.out = out]]
    /\ UNCHANGED <<regVars, glusterd, volume, peers, eventsd, vlast>>

\* the finally clause runs on a failed command and on an exception alike
RestartsUnlessException(out) == out # "exception"

RestartsEventsd(out) == TRUE

PyBool(b) == IF b THEN "True" ELSE "False"

VolumeMountFinally ==
    LET j == vjob["mount"]
    IN  /\ j.pc = "finally"
        /\ eventsd' = IF RestartsEventsd(j.out) THEN TRUE ELSE eventsd
        /\ JobEnds("mount", j.by, PyBool(j.flag),
                   IF RestartsEventsd(j.out) THEN j.log \o <<"events_start">> ELSE j.log)
        /\ UNCHANGED <<regVars, glusterd, mounted, volume, peers>>

VolumeUmount(by) ==
    /\ VolLockFree("umount")
    /\ IF by = "user" THEN TRUE ELSE vjob[by].pc = "call"
    /\ eventsd' = FALSE
    /\ vjob' = [vjob EXCEPT !["umount"] =
                  [pc |-> "cmd", by |-> by, log |-> <<"events_stop">>,
                   flag |-> FALSE, out |-> "none", was |-> eventsd]]
    /\ UNCHANGED <<regVars, glusterd, mounted, volume, peers, vlast>>

UmountOutcomes == {"ok", "not mounted", "fail", "exception"}

VolumeUmountCommand ==
    /\ vjob["umount"].pc = "cmd"
    /\ \E out \in UmountOutcomes :
         /\ out = "not mounted" => ~ mounted
         /\ out = "ok" => mounted
         /\ mounted' = (mounted /\ out # "ok")
         /\ vjob' = [vjob EXCEPT !["umount"] =
                       [@ EXCEPT !.pc = "finally", !.log = @ \o <<"umount">>,
                                 !.flag = (out \in {"ok", "not mounted"}), !.out = out]]
    /\ UNCHANGED <<regVars, glusterd, volume, peers, eventsd, vlast>>

VolumeUmountFinally ==
    LET j == vjob["umount"]
    IN  /\ j.pc = "finally"
        /\ eventsd' = IF RestartsEventsd(j.out) THEN TRUE ELSE eventsd
        /\ JobEnds("umount", j.by, PyBool(j.flag),
                   IF RestartsEventsd(j.out) THEN j.log \o <<"events_start">> ELSE j.log)
        /\ UNCHANGED <<regVars, glusterd, mounted, volume, peers>>

\* create, up to the call of mount: what it raises, the volume it leaves
\* and the commands it invoked
CreateSteps(v, pool) ==
    LET r == shared_volume_exists_and_started(v)
        con_peers == ConnectedPeers(pool)
        req == construct_gluster_volume_create_data(con_peers)
    IN  IF r.exc # "none"
        THEN [exc |-> r.exc, volume |-> r.volume, log |-> r.log]
        ELSE IF r.exists
        THEN IF r.started
             THEN [exc |-> "none", volume |-> r.volume, log |-> r.log]
             ELSE [exc |-> "none", volume |-> [r.volume EXCEPT !.started = TRUE],
                   log |-> r.log \o <<"start">>]
        ELSE IF Len(pool) = 0
        THEN [exc |-> "CallError", volume |-> r.volume, log |-> r.log]
        ELSE IF Len(con_peers) < 3
        THEN [exc |-> "CallError", volume |-> r.volume, log |-> r.log]
        ELSE [exc |-> "none",
              volume |-> [CreatedVolume(req) EXCEPT !.started = TRUE],
              log |-> r.log \o <<"create", "start">>]

VolumeCreate ==
    /\ VolLockFree("create")
    /\ LET c == CreateSteps(volume, peers)
       IN  /\ volume' = c.volume
           /\ IF c.exc # "none"
              THEN /\ vlast' = [op |-> "create", by |-> "user", ret |-> c.exc, log |-> c.log]
                   /\ UNCHANGED vjob
              ELSE /\ vjob' = [vjob EXCEPT !["create"] =
                                 [pc |-> "call", by |-> "user", log |-> c.log,
                                  flag |-> TRUE, out |-> "none", was |-> TRUE]]
                   /\ UNCHANGED vlast
    /\ UNCHANGED <<regVars, glusterd, mounted, peers, eventsd>>

VolumeCreateReturn ==
    /\ vjob["create"].pc = "return"
    /\ vjob' = [vjob EXCEPT !["create"] = NoVJob]
    /\ vlast' = [op |-> "create", by |-> "user", ret |-> "SUCCESS",
                 log |-> vjob["create"].log]
    /\ UNCHANGED <<regVars, glusterd, mounted, volume, peers, eventsd>>

VolumeDelete ==
    /\ VolLockFree("delete")
    /\ LET r == shared_volume_exists_and_started(volume)
       IN  /\ volume' = r.volume
           /\ IF r.exc # "none"
              THEN /\ vlast' = [op |-> "delete", by |-> "user", ret |-> r.exc, log |-> r.log]
                   /\ UNCHANGED vjob
              ELSE IF ~ r.exists
              THEN /\ vlast' = [op |-> "delete", by |-> "user", ret |-> "None", log |-> r.log]
                   /\ UNCHANGED vjob
              ELSE /\ vjob' = [vjob EXCEPT !["delete"] =
                                 [pc |-> "call", by |-> "user", log |-> r.log,
                                  flag |-> r.started, out |-> "none", was |-> TRUE]]
                   /\ UNCHANGED vlast
    /\ UNCHANGED <<regVars, glusterd, mounted, peers, eventsd>>

\* the volume after a gluster command
ApplyCommand(v, cmd) ==
    IF cmd = "stop" THEN [v EXCEPT !.started = FALSE]
    ELSE IF cmd = "delete" THEN NoVolume
    ELSE v

RECURSIVE ApplyCommands(_, _)
ApplyCommands(v, cmds) ==
    IF cmds = <<>> THEN v
    ELSE ApplyCommands(ApplyCommand(v, Head(cmds)), Tail(cmds))

\* the volume is deleted first and stopped afterwards
DeleteThenStop(started) ==
    IF started THEN <<"delete", "stop">> ELSE <<"delete">>

\* the commands of delete once the unmount returned
DeleteCommands(started) ==
    IF started THEN <<"stop", "delete">> ELSE <<"delete">>

VolumeDeleteFinish ==
    LET j == vjob["delete"]
        cmds == DeleteCommands(j.flag)
    IN  /\ j.pc = "return"
        /\ volume' = ApplyCommands(volume, cmds)
        /\ vjob' = [vjob EXCEPT !["delete"] = NoVJob]
        /\ vlast' = [op |-> "delete", by |-> "user", ret |-> "SUCCESS",
                     log |-> j.log \o cmds]
        /\ UNCHANGED <<regVars, glusterd, mounted, peers, eventsd>>

\* no volume job runs; the volume the registries live on is up
SharedVolume ==
    [exists |-> TRUE, type |-> "REPLICATE", replica |-> 3,
     bricks |-> [i \in 1..3 |-> Brick(Hostname(i))], started |-> TRUE]

VolumeIdle ==
    /\ volume = SharedVolume
    /\ peers = [i \in 1..3 |-> [hostname |-> Hostname(i), connected |-> "Connected"]]
    /\ eventsd = TRUE
    /\ vjob = [op \in VolOps |-> NoVJob]
    /\ vlast = NoVLast

(***************************************************************************)
(* The specification.                                                      *)
(***************************************************************************)
Init ==
    /\ ctdb = FALSE
    /\ glusterd = FALSE
    /\ mounted = FALSE
    /\ status = <<>>
    /\ daemonNodes = <<>>
    /\ daemonIps = <<>>
    /\ file = [c \in Classes |-> NoFile]
    /\ etc \in [Classes -> EtcStates]
    /\ cur = [c \in Classes |-> NoJob]
    /\ last = NoOp
    /\ queue = NoQueue
    /\ hist = NoHist
    /\ VolumeIdle

Next ==
    \/ \E c \in Classes : \E req \in Requests(c) : Begin(c, req)
    \/ \E c \in Classes : Update(c)
    \/ GlusterdToggle
    \/ Mount
    \/ Umount
    \/ CtdbStart
    \/ CtdbStop
    \/ StatusChange

Spec == Init /\ [][Next]_vars

(***************************************************************************)
(* The same system with its operations called one after the other: a       *)
(* create or delete begins only when no other is running.                  *)
(***************************************************************************)
\* create/delete begins, no other operation running
BeginSeq(c, req) == Idle /\ Begin(c, req)

NextSeq ==
    \/ \E c \in Classes : \E req \in Requests(c) : BeginSeq(c, req)
    \/ \E c \in Classes : Update(c)
    \/ GlusterdToggle
    \/ Mount
    \/ Umount
    \/ CtdbStart
    \/ CtdbStop
    \/ StatusChange

SpecSeq == Init /\ [][NextSeq]_vars

(***************************************************************************)
(* ctdb.public.ips.common_validation over the whole range of netmasks:     *)
(* the shared volume is mounted, glusterd runs, the daemon does not, and   *)
(* calls of ctdb.public.ips.create are validated.                          *)
(***************************************************************************)
\* the largest netmask of a call
MaxNetmask == 130

NetmaskRequests ==
    {[op |-> "create", data |-> [ip |-> i, netmask |-> n, interface |-> ETH0]] :
        i \in {IP_A, IP_V6}, n \in (0 - 2)..MaxNetmask}

InitNetmask ==
    /\ ctdb = FALSE
    /\ glusterd = TRUE
    /\ mounted = TRUE
    /\ status = <<>>
    /\ daemonNodes = <<>>
    /\ daemonIps = <<>>
    /\ file = [c \in Classes |-> NoFile]
    /\ etc = [c \in Classes |-> "absent"]
    /\ cur = [c \in Classes |-> NoJob]
    /\ last = NoOp
    /\ queue = NoQueue
    /\ hist = NoHist
    /\ VolumeIdle

NextNetmask == \E req \in NetmaskRequests : Begin("pub", req)

SpecNetmask == InitNetmask /\ [][NextNetmask]_vars

(***************************************************************************)
(* ctdb.private.ips.update_file of a delete over every content of the      *)
(* private store: a delete job that passed validation runs update_file.    *)
(***************************************************************************)
PriLines == {IP_A, IP_B, <<"#">> \o IP_A, <<"#">> \o IP_B}

\* the line sequences of at most MaxLines lines
PriContents == UNION {[1..n -> PriLines] : n \in 0..MaxLines}

InitTombstone ==
    /\ ctdb \in BOOLEAN
    /\ glusterd = TRUE
    /\ mounted = TRUE
    /\ status \in (IF ctdb THEN StatusValues ELSE {<<>>})
    /\ daemonNodes = <<>>
    /\ daemonIps = <<>>
    /\ \E ls \in PriContents :
           file = [c \in Classes |->
                      IF c = "pri" THEN [exists |-> TRUE, content |-> JoinLines(ls)]
                      ELSE NoFile]
    /\ \E e \in EtcStates : etc = [c \in Classes |-> IF c = "pri" THEN e ELSE "absent"]
    /\ \E i \in {IP_A, IP_B} :
           cur = [c \in Classes |->
                     IF c = "pri"
                     THEN [op |-> "delete", data |-> [ip |-> i], pc |-> "update"]
                     ELSE NoJob]
    /\ last = NoOp
    /\ queue = NoQueue
    /\ hist = NoHist
    /\ VolumeIdle

NextTombstone == Update("pri")

SpecTombstone == InitTombstone /\ [][NextTombstone]_vars

(***************************************************************************)
(* update_file over every content of the store of its class: a create or   *)
(* delete job that passed validation runs update_file.  The shared volume  *)
(* is shared by the nodes of the cluster, so the store is in any state     *)
(* when the job reaches update_file.                                       *)
(***************************************************************************)
PubLines ==
    {PubEntryLine([ip |-> i, netmask |-> 24, interface |-> ETH0]) : i \in {IP_A, IP_B}}

\* the line sequences of at most MaxLines lines of the public store
PubContents == UNION {[1..n -> PubLines] : n \in 0..MaxLines}

\* the store files of class c: absent, or of any content
StoreFiles(c) ==
    {NoFile} \cup {[exists |-> TRUE, content |-> JoinLines(ls)] :
                      ls \in (IF c = "pri" THEN PriContents ELSE PubContents)}

\* the jobs of class c that call update_file
UpdateJobs(c) ==
    IF c = "pri"
    THEN {[op |-> o, data |-> [ip |-> i], pc |-> "update"] :
             o \in {"create", "delete"}, i \in {IP_A, IP_B}}
    ELSE {[op |-> "create", pc |-> "update",
           data |-> [ip |-> i, netmask |-> 24, interface |-> ETH0]] : i \in {IP_A, IP_B}}
         \cup {[op |-> "delete", data |-> [ip |-> i], pc |-> "update"] :
                  i \in {IP_A, IP_B}}

InitUpdate ==
    /\ ctdb \in BOOLEAN
    /\ glusterd = TRUE
    /\ mounted = TRUE
    /\ status \in (IF ctdb THEN StatusValues ELSE {<<>>})
    /\ daemonNodes = <<>>
    /\ daemonIps = <<>>
    /\ \E c \in Classes :
          /\ \E f \in StoreFiles(c) :
                 file = [d \in Classes |-> IF d = c THEN f ELSE NoFile]
          /\ \E e \in EtcStates :
                 etc = [d \in Classes |-> IF d = c THEN e ELSE "absent"]
          /\ \E j \in UpdateJobs(c) :
                 cur = [d \in Classes |-> IF d = c THEN j ELSE NoJob]
    /\ last = NoOp
    /\ queue = NoQueue
    /\ hist = NoHist
    /\ VolumeIdle

NextUpdate == \E c \in Classes : Update(c)

SpecUpdate == InitUpdate /\ [][NextUpdate]_vars

(***************************************************************************)
(* The rewrite of a delete failing.  update_file rewrites the store with   *)
(* open(file, 'w'), which truncates the file in place, and writelines: an  *)
(* error before the open leaves the file as it was, an error at a write    *)
(* leaves the lines written so far.                                        *)
(***************************************************************************)
\* what the store of class c holds when the rewrite of new over old fails
RewriteFailures(old, new) ==
    {old} \cup {SubSeq(new, 1, k) : k \in 0..(Len(new) - 1)}

\* the delete job of class c reaches the rewrite of its store and the
\* rewrite raises OSError
RewriteFails(c) ==
    /\ cur[c].pc = "update"
    /\ cur[c].op = "delete"
    /\ LET r == UpdateFile(c, cur[c])
       IN  /\ r.exc = "none"
           /\ \E ls \in RewriteFailures(ReadLines(file[c]), ReadLines(r.file)) :
                  file' = [file EXCEPT ![c] =
                              [exists |-> TRUE, content |-> JoinLines(ls)]]
           /\ etc' = [etc EXCEPT ![c] = r.etc]
    /\ last' = Completed(c, cur[c], "OSError", {})
    /\ cur' = [cur EXCEPT ![c] = NoJob]
    /\ UNCHANGED <<envVars, jobVars>>

NextRewrite ==
    \/ \E c \in Classes : Update(c)
    \/ \E c \in Classes : RewriteFails(c)

SpecRewrite == InitUpdate /\ [][NextRewrite]_vars

(***************************************************************************)
(* The jobs of a class and their lock.  create and delete are jobs with    *)
(* lock=PRI_LOCK or lock=PUB_LOCK: a job that arrives waits in the queue   *)
(* of its lock; when the lock is free the job that arrived first takes it  *)
(* and keeps it until it ends, whether it returns or raises.               *)
(***************************************************************************)
\* jobs a class receives
MaxJobs == 2

\* a lock that does not exclude
LockAlwaysFree(c) == TRUE

\* no job holds the lock of class c
LockFree(c) == cur[c] = NoJob

\* the job that arrived last is taken first
DequeueNewest(q) == [job |-> q[Len(q)], rest |-> SubSeq(q, 1, Len(q) - 1)]

\* the waiting job that gets the lock next, and the jobs that go on waiting
Dequeue(q) == [job |-> Head(q), rest |-> Tail(q)]

\* the line a successful create of class c appends for data
EntryOf(c, data) ==
    IF c = "pri" THEN data.ip
    ELSE data.ip \o <<"/">> \o IntToStr(data.netmask) \o <<" ">> \o data.interface

\* a call of create/delete arrives and waits for the lock of its class
Submit(c, req) ==
    /\ hist.arrived[c] < MaxJobs
    /\ queue' = [queue EXCEPT ![c] =
                    Append(@, [req |-> req, ticket |-> hist.arrived[c] + 1])]
    /\ hist' = [hist EXCEPT
                   !.arrived[c] = @ + 1,
                   !.waited[c] = IF LockFree(c) /\ queue[c] = <<>>
                                 THEN @ ELSE @ \cup {hist.arrived[c] + 1}]
    /\ UNCHANGED <<envVars, file, etc, cur, last>>

\* a call of create arrives
SubmitCreate(c, req) == req.op = "create" /\ Submit(c, req)

\* the lock of class c is free: the next waiting job takes it and runs up to
\* the call of update_file
Start(c) ==
    /\ queue[c] # <<>>
    /\ LockFree(c)
    /\ Run(c, Dequeue(queue[c]).job.req)
    /\ queue' = [queue EXCEPT ![c] = Dequeue(queue[c]).rest]
    /\ hist' = [hist EXCEPT !.started[c] = Dequeue(queue[c]).job.ticket]

\* the job holding the lock of class c runs update_file, ends and releases
\* the lock
Finish(c) ==
    /\ Complete(c)
    /\ hist' = [hist EXCEPT !.accepted[c] =
                   IF cur[c].op = "create" /\ UpdateFile(c, cur[c]).exc = "none"
                   THEN Append(@, EntryOf(c, cur[c].data))
                   ELSE @]
    /\ UNCHANGED queue

\* the shared volume is mounted and glusterd runs; both stores are empty
InitJobs ==
    /\ ctdb \in BOOLEAN
    /\ glusterd = TRUE
    /\ mounted = TRUE
    /\ status \in (IF ctdb THEN StatusValues ELSE {<<>>})
    /\ daemonNodes = <<>>
    /\ daemonIps = <<>>
    /\ file = [c \in Classes |-> NoFile]
    /\ etc \in [Classes -> EtcStates]
    /\ cur = [c \in Classes |-> NoJob]
    /\ last = NoOp
    /\ queue = NoQueue
    /\ hist = NoHist
    /\ VolumeIdle

\* calls of create arrive at any time
NextCreates ==
    \/ \E c \in Classes : \E req \in Requests(c) : SubmitCreate(c, req)
    \/ \E c \in Classes : Start(c)
    \/ \E c \in Classes : Finish(c)

SpecCreates == InitJobs /\ [][NextCreates]_vars

\* the calls that arrive: of each class a create and a delete, and a public
\* create that fails validation
JobRequests(c) ==
    IF c = "pri" THEN PriRequests
    ELSE {[op |-> "create", data |-> [ip |-> IP_A, netmask |-> 24, interface |-> i]] :
             i \in {ETH0, ETH9}}
         \cup {[op |-> "delete", data |-> [ip |-> IP_A]]}

\* calls of create and delete arrive at any time
NextJobs ==
    \/ \E c \in Classes : \E req \in JobRequests(c) : Submit(c, req)
    \/ \E c \in Classes : Start(c)
    \/ \E c \in Classes : Finish(c)

\* ENABLED <<Start(c)>>_vars: a job waits and the lock is free
CanStart(c) == queue[c] # <<>> /\ LockFree(c)

\* ENABLED <<Finish(c)>>_vars: a job is at the call of update_file
CanFinish(c) == cur[c].pc = "update"

\* a job that can take the lock does, and a running job goes on to its end:
\* WF_vars(Start(c)) and WF_vars(Finish(c)), with ENABLED written out
FairJobs ==
    \A c \in Classes :
        /\ ([]<>(~ CanStart(c)) \/ []<><<Start(c)>>_vars)
        /\ ([]<>(~ CanFinish(c)) \/ []<><<Finish(c)>>_vars)

\* the daemon does not run; the local paths are both absent, where
\* update_file succeeds, or both dangling symlinks, where it fails
InitQueue ==
    /\ InitJobs
    /\ ctdb = FALSE
    /\ etc \in {[c \in Classes |-> e] : e \in {"absent", "link_missing"}}

SpecJobs == InitQueue /\ [][NextJobs]_vars /\ FairJobs

(***************************************************************************)
(* What list() returns, and the outcomes of an operation.                  *)
(***************************************************************************)
\* the addresses list() of class c returns
ListIps(c) ==
    IF c = "pri"
    THEN [i \in 1..Len(PriQuery) |-> PriQuery[i].val]
    ELSE Ids(PubQuery)

Succeeded(rec) == rec.exc = "none"

\* the operation failed with the address-already-present validation error
Conflict(rec) == rec.exc = "ValidationErrors" /\ "exists" \in rec.errors

\* the address field of a line of the public store
AddressOf(line) == Split(line, "/")[1]

\* lines without its k-th line
WithoutLine(lines, k) == SubSeq(lines, 1, k - 1) \o SubSeq(lines, k + 1, Len(lines))

(***************************************************************************)
(* The claims.                                                             *)
(***************************************************************************)

\* C1: whenever create(a) of a class completes successfully, list() of that
\* class issued immediately afterwards includes a.  The claim asserts this
\* of every state; it is stated here for the states in which the daemon is
\* not running, where list() reads the store file.
C1_CreateThenListIncludes ==
    (last.op = "create" /\ Succeeded(last) /\ ~ ctdb)
        => PyIn(last.data.ip, ListIps(last.cls))

\* C2: after a successful create(a), a second create(a) of the same class
\* with nothing in between fails with Conflict and leaves the store file as
\* it is.  Stated for the states in which the daemon is not running.
C2_SecondCreateConflicts ==
    [][\A c \in Classes : \A req \in Requests(c) :
          (/\ ~ ctdb
           /\ last.cls = c /\ last.op = "create" /\ Succeeded(last)
           /\ req.op = "create" /\ req.data = last.data
           /\ Begin(c, req))
              => (Conflict(last') /\ cur'[c] = NoJob /\ file' = file)]_vars

\* C3: a private create whose ip is the ip of an address the public list
\* holds fails with Conflict and leaves the private store unchanged (the
\* preconditions of the create being met).
C3_PrivateCreateOfPublicIpConflicts ==
    [][\A req \in PriRequests :
          (/\ req.op = "create"
           /\ PreconditionErrors = {}
           /\ PyIn(req.data.ip, Ids(PubQuery))
           /\ Begin("pri", req))
              => (Conflict(last') /\ cur'["pri"] = NoJob /\ file' = file)]_vars

\* C4: a public create whose ip is an active address of the private list
\* fails with Conflict, the address-already-present validation error, and
\* leaves the public store unchanged (the preconditions of the create being
\* met and the ip not bound on the node).
C4_PublicCreateOfPrivateIpConflicts ==
    [][\A req \in PubRequests :
          (/\ req.op = "create"
           /\ PreconditionErrors = {}
           /\ req.data.ip \notin NodeIps
           /\ PyIn(PyStr(req.data.ip), PriQuery)
           /\ Begin("pub", req))
              => (Conflict(last') /\ cur'["pub"] = NoJob /\ file' = file)]_vars

\* C5: in every reachable state no address is an active line of the private
\* store and at the same time the address of a line of the public store.
\* The claim asserts this of every interleaving; it is checked for the
\* operations called one after the other.
C5_NoAddressInBothStores ==
    \A ip \in {IP_A, IP_B} :
        ~ (/\ PyIn(ip, ReadLines(file["pri"]))
           /\ \E k \in 1..Len(ReadLines(file["pub"])) :
                  AddressOf(ReadLines(file["pub"])[k]) = ip)

\* C6: a successful public delete(ip) of an ip the store holds leaves the
\* previous lines with exactly the first line whose address field is ip
\* removed, the others in their order.
C6_PublicDeleteRemovesExactLine ==
    [][(/\ cur["pub"].pc = "update"
        /\ cur["pub"].op = "delete"
        /\ \E k \in 1..Len(ReadLines(file["pub"])) :
               AddressOf(ReadLines(file["pub"])[k]) = cur["pub"].data.ip
        /\ Update("pub")
        /\ Succeeded(last'))
           => LET lines == ReadLines(file["pub"])
                  k == CHOOSE k \in 1..Len(lines) :
                           /\ AddressOf(lines[k]) = cur["pub"].data.ip
                           /\ \A j \in 1..(k - 1) :
                                  AddressOf(lines[j]) # cur["pub"].data.ip
              IN  ReadLines(file'["pub"]) = WithoutLine(lines, k)]_vars

\* C7: a successful private delete(ip) of an ip with an active line leaves
\* the file with the same number of lines, '#ip' where a line was ip, and
\* every other line unchanged at its index.
C7_TombstoneInPlace ==
    [][(/\ cur["pri"].pc = "update"
        /\ cur["pri"].op = "delete"
        /\ PyIn(cur["pri"].data.ip, ReadLines(file["pri"]))
        /\ Update("pri")
        /\ Succeeded(last'))
           => LET old == ReadLines(file["pri"])
                  new == ReadLines(file'["pri"])
                  ip == cur["pri"].data.ip
              IN  /\ Len(new) = Len(old)
                  /\ \E k \in 1..Len(old) :
                         /\ old[k] = ip
                         /\ new[k] = <<"#">> \o ip
                         /\ \A j \in (1..Len(old)) \ {k} : new[j] = old[j]]_vars

\* C7 witness: delete('10.0.0.5') has turned the store '10.0.0.5',
\* '10.0.0.50' into '#10.0.0.5', '10.0.0.50'.
C7_Witness ==
    /\ last.cls = "pri" /\ last.op = "delete" /\ Succeeded(last)
    /\ last.data.ip = IP_A
    /\ ReadLines(file["pri"]) = <<<<"#">> \o IP_A, IP_B>>

\* the netmask is in the range of the family of ip
NetmaskInRange(ip, netmask) ==
    /\ netmask >= 0
    /\ netmask <= (IF CharIn(":", ip) THEN 128 ELSE 32)

\* C8: the netmask of a public create is rejected exactly when it is
\* negative or above 128 for an ip containing ':', above 32 otherwise.
C8_NetmaskRange ==
    /\ (/\ last.cls = "pub" /\ last.op = "create"
        /\ last.exc = "ValidationErrors"
        /\ last.errors \cap {"glusterd", "not_mounted", "in_use"} = {})
           => ("netmask" \in last.errors
                   <=> ~ NetmaskInRange(last.data.ip, last.data.netmask))
    /\ (cur["pub"].pc = "update" /\ cur["pub"].op = "create")
           => NetmaskInRange(cur["pub"].data.ip, cur["pub"].data.netmask)

\* C9: when the local path is a regular file, one run of the symlink repair
\* of update_file deletes it and leaves a symlink to the store file; a run
\* on a correct symlink changes nothing.
C9_RepairInOnePass ==
    [][\A c \in Classes :
          /\ (Update(c) /\ etc[c] = "file" /\ etc'[c] # "file")
                 => etc'[c] = "link_canon"
          /\ (Update(c) /\ etc[c] = "link_canon")
                 => etc'[c] = "link_canon"]_vars

\* C10: whenever delete(a) of a class completes successfully, list() of that
\* class issued immediately afterwards excludes a.  The claim asserts this
\* of every state; it is stated here for the states in which the daemon is
\* not running, where list() reads the store file.
C10_DeleteThenListExcludes ==
    (last.op = "delete" /\ Succeeded(last) /\ ~ ctdb)
        => ~ PyIn(last.data.ip, ListIps(last.cls))

\* the operation failed with the address-absent error: the validation error
\* of common_validation or the one of get_instance
NotFound(rec) ==
    \/ rec.exc = "ValidationErrors" /\ "not_exists" \in rec.errors
    \/ rec.exc = "ValidationError" /\ "instance" \in rec.errors

\* the store of class c holds a line delete(ip) is to act on: an active line
\* ip of the private store, a line of the public store whose address is ip
HasActiveLine(c, ip) ==
    IF c = "pri"
    THEN PyIn(ip, ReadLines(file["pri"]))
    ELSE \E k \in 1..Len(ReadLines(file["pub"])) :
             AddressOf(ReadLines(file["pub"])[k]) = ip

\* C11: a delete(ip) that follows a successful delete(ip) of the same class
\* with nothing in between, and any delete(ip) whose ip has no matching
\* active line in the store, fails with NotFound and leaves the store file
\* as it is (the preconditions of the delete being met).  Stated for the
\* states in which the daemon is not running.
C11_SecondDeleteNotFound ==
    [][\A c \in Classes : \A req \in Requests(c) :
          (/\ ~ ctdb
           /\ req.op = "delete"
           /\ PreconditionErrors = {}
           /\ \/ /\ last.cls = c /\ last.op = "delete" /\ Succeeded(last)
                 /\ last.data.ip = req.data.ip
              \/ ~ HasActiveLine(c, req.data.ip)
           /\ Begin(c, req))
              => (NotFound(last') /\ cur'[c] = NoJob /\ file' = file)]_vars

\* C12: creates of one class arriving at any time, the two stores empty at
\* first: the store file of the class holds exactly the lines of the creates
\* that succeeded, one whole line each, in the order they ended.
C12_OneLinePerAcceptedCreate ==
    \A c \in Classes : ReadLines(file[c]) = hist.accepted[c]

\* C12 witness: two creates of the public class were waiting together and
\* both have succeeded.
C12_Witness ==
    /\ 2 \in hist.waited["pub"]
    /\ Len(hist.accepted["pub"]) = 2
    /\ cur["pub"] = NoJob /\ queue["pub"] = <<>>

C14_PrivateHealthGate ==
    [][Update("pri") =>
          LET f == file["pri"]
              job == cur["pri"]
              blocked == f.exists /\ ctdb /\ ~ healthy
              applies == \/ job.op = "create"
                         \/ PyIn(job.data.ip, ReadLines(f))
          IN  /\ blocked => /\ file' = file
                            /\ etc' = etc
                            /\ last'.exc = "CallError"
              /\ ~ blocked => /\ file'["pri"].exists
                              /\ (etc["pri"] # "link_missing" /\ applies)
                                     => /\ Succeeded(last')
                                        /\ file'["pri"].content # f.content]_vars

\* C14 witness: a private create has failed on an existing store with a
\* correct symlink, the daemon running and reporting the cluster unhealthy.
C14_Witness ==
    /\ last.cls = "pri" /\ last.op = "create" /\ last.exc = "CallError"
    /\ ctdb /\ ~ healthy
    /\ file["pri"].exists /\ etc["pri"] = "link_canon"

\* C15: a run of the public update_file whose store file exists while the
\* daemon runs and reports a node that is not OK writes nothing and the
\* operation fails.
C15_PublicHealthGate ==
    [][(/\ Update("pub")
        /\ file["pub"].exists /\ ctdb
        /\ \E i \in 1..Len(status) : status[i] # "OK")
           => (file' = file /\ ~ Succeeded(last'))]_vars

\* the operation failed with the validation error of the precondition
\* checks and of nothing that reads the address lists
PreconditionFailure(rec) ==
    /\ rec.exc = "ValidationErrors"
    /\ rec.errors \cap {"glusterd", "not_mounted"} # {}
    /\ rec.errors \subseteq {"glusterd", "not_mounted", "in_use"}

\* C16: a create or delete of either class called while glusterd does not
\* run or the shared volume is not mounted, the daemon running or not, fails
\* with the error of the precondition checks, before any lookup of the
\* address lists, and leaves the store file and the local path unchanged.
C16_PreconditionsFirst ==
    [][\A c \in Classes : \A req \in Requests(c) :
          (/\ ~ glusterd \/ ~ mounted
           /\ Begin(c, req))
              => /\ PreconditionFailure(last')
                 /\ cur'[c] = NoJob
                 /\ file' = file
                 /\ etc' = etc]_vars

\* C17: the jobs of one class run one at a time from the start of validation
\* to the end of the file write: a job starts only when no job of its class
\* is running, the waiting jobs start in the order they arrived, and every
\* job that arrived eventually starts, however the jobs before it ended.
C17_SerializedInArrivalOrder ==
    /\ [][\A c \in Classes :
             Start(c) => /\ cur[c] = NoJob
                         /\ hist'.started[c] = hist.started[c] + 1]_vars
    /\ \A c \in Classes : \A n \in 1..MaxJobs :
           (hist.arrived[c] >= n) ~> (hist.started[c] >= n)

\* C17 witness: the second job of a class arrived while the lock was taken
\* or another job waited, the job before it ended with an error, and the
\* second job now holds the lock.
C17_Witness ==
    \E c \in Classes :
        /\ 2 \in hist.waited[c]
        /\ hist.started[c] = 2
        /\ cur[c].pc = "update"
        /\ last.cls = c /\ last.exc = "CallError"

\* C18: when the rewrite of the store by a delete of either class fails,
\* the store afterwards holds exactly the lines it held before the delete.
C18_FailedRewriteLosesNothing ==
    [][\A c \in Classes :
          RewriteFails(c) => ReadLines(file'[c]) = ReadLines(file[c])]_vars

\* the addresses of the lines of the store file of class c
FileIps(c) ==
    IF c = "pri" THEN ReadLines(file["pri"])
    ELSE [k \in 1..Len(ReadLines(file["pub"])) |-> AddressOf(ReadLines(file["pub"])[k])]

\* C19: while the daemon runs, list() of a class returns exactly what the
\* daemon reports, whatever the store file, the local path and the mount
\* are; while it does not run, list() returns what the store file on disk
\* holds, or nothing.
C19_ListSourceByDaemonState ==
    /\ ctdb => /\ ListIps("pri") = daemonNodes
               /\ ListIps("pub") = daemonIps
    /\ ~ ctdb => \A c \in Classes : ListIps(c) \in {<<>>, FileIps(c)}

\* C19 witness: the daemon runs and reports '10.0.0.5', which the private
\* store holds as a tombstone only: list() returns the daemon's report.
C19_Witness ==
    /\ ctdb
    /\ ListIps("pri") = <<IP_A>>
    /\ ReadLines(file["pri"]) = <<<<"#">> \o IP_A>>
    /\ etc["pri"] = "link_canon" /\ mounted

\* C20: while the daemon does not run, the private list() returns the
\* lines of the private store that are not tombstones, in file order (or
\* nothing): no element of it is a '#<ip>' line.
C20_PrivateListActiveOnly ==
    ~ ctdb => /\ ListIps("pri") \in {<<>>, ActiveLines(ReadLines(file["pri"]))}
              /\ \A i \in 1..Len(ListIps("pri")) :
                     ~ (Len(ListIps("pri")[i]) > 0 /\ ListIps("pri")[i][1] = "#")

(***************************************************************************)
(* The shared volume jobs on their own: every volume the pool may hold,    *)
(* every pool of peers, glusterd up or down.                               *)
(***************************************************************************)
InitVolumes ==
    { NoVolume,
      SharedVolume,
      [SharedVolume EXCEPT !.started = FALSE],
      [SharedVolume EXCEPT !.type = "DISTRIBUTE"],
      [SharedVolume EXCEPT !.replica = 2,
                           !.bricks = [i \in 1..2 |-> Brick(Hostname(i))]] }

InitVolume ==
    /\ ctdb = FALSE
    /\ status = <<>>
    /\ daemonNodes = <<>>
    /\ daemonIps = <<>>
    /\ file = [c \in Classes |-> NoFile]
    /\ etc = [c \in Classes |-> "absent"]
    /\ cur = [c \in Classes |-> NoJob]
    /\ last = NoOp
    /\ queue = NoQueue
    /\ hist = NoHist
    /\ glusterd \in BOOLEAN
    /\ volume \in InitVolumes
    /\ mounted \in BOOLEAN
    /\ mounted => volume.exists /\ volume.started
    /\ peers \in PeerPools
    /\ eventsd = TRUE
    /\ vjob = [op \in VolOps |-> NoVJob]
    /\ vlast = NoVLast

NextVolume ==
    \/ \E by \in {"user", "create"} : VolumeMount(by)
    \/ VolumeMountCommand
    \/ VolumeMountFinally
    \/ \E by \in {"user", "delete"} : VolumeUmount(by)
    \/ VolumeUmountCommand
    \/ VolumeUmountFinally
    \/ VolumeCreate
    \/ VolumeCreateReturn
    \/ VolumeDelete
    \/ VolumeDeleteFinish

SpecVolume == InitVolume /\ [][NextVolume]_vars

(***************************************************************************)
(* Claims about the shared volume.                                         *)
(***************************************************************************)
\* the positions in the pool of the peers that are connected
ConnectedSet == {i \in 1..Len(peers) : peers[i].connected = "Connected"}

Invoked(log, cmd) == \E k \in 1..Len(log) : log[k] = cmd

\* C21: create never creates the replicated volume with fewer than three
\* connected peers.  When no volume exists and fewer than three peers are
\* connected (or the pool is empty), create fails and invokes no volume
\* create, no volume start and no mount; when it does create the volume, the
\* bricks are exactly the connected peers and the replica count is their
\* number, which is at least three.
C21_CreateNeedsThreeConnectedPeers ==
    [][VolumeCreate =>
        /\ (~ volume.exists /\ Cardinality(ConnectedSet) < 3) =>
              /\ vlast'.op = "create"
              /\ vlast'.ret = "CallError"
              /\ vlast'.log = <<>>
              /\ volume' = volume
              /\ vjob' = vjob
        /\ (~ volume.exists /\ volume'.exists) =>
              /\ Invoked(vjob'["create"].log, "create")
              /\ Cardinality(ConnectedSet) >= 3
              /\ volume'.replica = Cardinality(ConnectedSet)
              /\ Len(volume'.bricks) = Cardinality(ConnectedSet)
              /\ {volume'.bricks[k] : k \in 1..Len(volume'.bricks)}
                   = {Brick(peers[i].hostname) : i \in ConnectedSet}
              /\ volume'.type = "REPLICATE"
    ]_vars

\* create made the volume out of a pool one peer of which is not connected
C21_Witness ==
    /\ vjob["create"].pc = "call"
    /\ Invoked(vjob["create"].log, "create")
    /\ volume.exists
    /\ Len(volume.bricks) < Len(peers)

\* a volume shared_volume_exists_and_started accepts: replicated over at
\* least three bricks
WellFormed(v) == v.type = "REPLICATE" /\ v.replica >= 3 /\ Len(v.bricks) >= 3

\* C22: mount is a no-op that returns not-mounted whenever glusterd is not
\* running, or the volume does not exist, or the volume exists but is not
\* started: it runs no mount command, does not start the volume and neither
\* stops nor starts the event service.
C22_MountNoOpWhenNotReady ==
    [][\A by \in {"user", "create"} :
        (/\ VolumeMount(by)
         /\ \/ ~ glusterd
            \/ ~ volume.exists
            \/ WellFormed(volume) /\ ~ volume.started)
        => /\ vlast'.op = "mount"
           /\ vlast'.ret = "False"
           /\ ~ Running("mount")'
           /\ volume' = volume
           /\ eventsd' = eventsd
    ]_vars

\* in log, first precedes second, and both were invoked
Before(log, first, second) ==
    \E i, j \in 1..Len(log) : i < j /\ log[i] = first /\ log[j] = second

\* C23: in mount and in umount the event service is stopped strictly before
\* the mount or umount command is invoked, the command never runs while the
\* operation has not stopped the service, and the service is started again
\* after the command on every exit path (success, failed command,
\* exception), before the operation returns.
C23_EventServiceStoppedAroundCommand ==
    [][/\ \A op \in {"mount", "umount"} :
            (vjob[op].pc = "cmd" /\ vjob'[op].pc = "finally")
            => /\ ~ eventsd
               /\ Before(vjob'[op].log, "events_stop", op)
       /\ \A op \in {"mount", "umount"} :
            (vjob[op].pc = "finally" /\ vjob'[op].pc = "idle")
            => /\ eventsd'
               /\ vlast'.op = op
               /\ Before(vlast'.log, "events_stop", op)
               /\ Before(vlast'.log, op, "events_start")
               /\ vlast'.log[Len(vlast'.log)] = "events_start"
    ]_vars

\* a mount whose command failed or raised has returned not-mounted, the
\* event service running again
C23_Witness ==
    /\ vlast.op = "mount"
    /\ vlast.ret = "False"
    /\ Invoked(vlast.log, "mount")
    /\ eventsd

C25_SuccessMeansMounted ==
    [][(VolumeCreateReturn /\ vlast'.ret = "SUCCESS")
        => /\ volume'.exists
           /\ volume'.started
           /\ mounted'
    ]_vars

(***************************************************************************)
(* The address jobs next to mount and umount jobs: the three locks         *)
(* PRI_LOCK, PUB_LOCK and MOUNT_UMOUNT_LOCK together.                      *)
(***************************************************************************)
InitLocks ==
    /\ ctdb = FALSE
    /\ glusterd = TRUE
    /\ mounted \in BOOLEAN
    /\ status = <<>>
    /\ daemonNodes = <<>>
    /\ daemonIps = <<>>
    /\ file = [c \in Classes |-> NoFile]
    /\ etc \in [Classes -> {"absent", "link_canon"}]
    /\ cur = [c \in Classes |-> NoJob]
    /\ last = NoOp
    /\ queue = NoQueue
    /\ hist = NoHist
    /\ VolumeIdle

\* the lock create and delete of a class are declared with
ClassLock(c) == IF c = "pri" THEN "PRI_LOCK" ELSE "PUB_LOCK"

\* the locks held by the running jobs
HeldLocks ==
    {LockOf(op) : op \in {o \in VolOps : Running(o)}}
        \cup {ClassLock(c) : c \in {k \in Classes : cur[k] # NoJob}}

\* create/delete of class c is called and finds its lock free
BeginLocked(c, req) ==
    /\ ClassLock(c) \notin HeldLocks
    /\ Begin(c, req)

NextLocks ==
    \/ \E c \in Classes : \E req \in JobRequests(c) : BeginLocked(c, req)
    \/ \E c \in Classes : Update(c)
    \/ VolumeMount("user")
    \/ VolumeMountCommand
    \/ VolumeMountFinally
    \/ VolumeUmount("user")
    \/ VolumeUmountCommand
    \/ VolumeUmountFinally

SpecLocks == InitLocks /\ [][NextLocks]_vars

\* C26: mount and umount are mutually exclusive with each other, a private
\* or public create/delete is never blocked by a running mount or umount
\* (its lock is free whenever no job of its own class runs), and a private
\* and a public mutation can be in progress at the same time.
C26_LockSeparation ==
    /\ ~ (Running("mount") /\ Running("umount"))
    /\ \A c \in Classes : cur[c] = NoJob => ClassLock(c) \notin HeldLocks

\* a private and a public mutation are in progress while a mount job runs
C26_Witness ==
    /\ Running("mount")
    /\ cur["pri"].pc = "update"
    /\ cur["pub"].pc = "update"

(***************************************************************************)
(* Further claims about the address registries.                            *)
(***************************************************************************)
\* the line a create of class c appends for data
LineOf(c, data) == IF c = "pri" THEN data.ip ELSE PubEntryLine(data)

\* C27: a create whose candidate is in neither address list, its
\* preconditions met (and, for a public create, the ip not bound on the
\* node, the netmask in range and the interface present), passes validation
\* whatever the other class's registry holds, also when it is not empty;
\* and a create that succeeds appends exactly its serialized line.
C27_ValidCreateAppends ==
    [][\A c \in Classes :
        /\ \A req \in Requests(c) :
             (/\ req.op = "create"
              /\ PreconditionErrors = {}
              /\ req.data.ip \notin NodeIps
              /\ c = "pub" => /\ NetmaskInRange(req.data.ip, req.data.netmask)
                              /\ req.data.interface \in NodeInts
              /\ ~ PyIn(req.data.ip, ListIps("pri"))
              /\ ~ PyIn(req.data.ip, ListIps("pub"))
              /\ Begin(c, req))
             => cur'[c].pc = "update"
        /\ (Update(c) /\ cur[c].op = "create" /\ Succeeded(last'))
             => ReadLines(file'[c])
                    = ReadLines(file[c]) \o <<LineOf(c, cur[c].data)>>
    ]_vars

\* C28: every time a create or delete writes a store file, the local path
\* of that class is at that moment a symlink resolving to the canonical
\* store, whatever it was before (absent, a regular file, a symlink to
\* another target, a dangling symlink): after every successful mutation the
\* local path is a correct symlink.
C28_WrittenThroughCorrectSymlink ==
    [][\A c \in Classes :
        (Update(c) /\ Succeeded(last')) => etc'[c] = "link_canon"
    ]_vars

(***************************************************************************)
(* The private registry with the daemon not running: creates and deletes   *)
(* of two addresses, one after the other, the store empty at first.        *)
(***************************************************************************)
ReaddRequests ==
    {[op |-> o, data |-> [ip |-> i]] : o \in {"create", "delete"}, i \in {IP_A, IP_B}}

InitReadd ==
    /\ ctdb = FALSE
    /\ glusterd = TRUE
    /\ mounted = TRUE
    /\ status = <<>>
    /\ daemonNodes = <<>>
    /\ daemonIps = <<>>
    /\ file = [c \in Classes |-> NoFile]
    /\ \E e \in EtcStates : etc = [c \in Classes |-> IF c = "pri" THEN e ELSE "absent"]
    /\ cur = [c \in Classes |-> NoJob]
    /\ last = NoOp
    /\ queue = NoQueue
    /\ hist = NoHist
    /\ VolumeIdle

NextReadd ==
    \/ \E req \in ReaddRequests : Begin("pri", req)
    \/ Update("pri")

SpecReadd == InitReadd /\ [][NextReadd]_vars

Tombstone(ip) == <<"#">> \o ip

\* C29: with the daemon not running, a create of an ip whose line was
\* tombstoned by a delete leaves '#ip' at its index and appends a fresh
\* 'ip' as the last line, and list then holds ip; a following delete(ip)
\* tombstones that last, active line and leaves the earlier tombstone as it
\* is; no run ever turns a tombstoned line back into an active line.
C29_ReaddAfterTombstone ==
    [][Update("pri") =>
        LET old == ReadLines(file["pri"])
            new == ReadLines(file'["pri"])
            ip  == cur["pri"].data.ip
        IN  /\ (/\ cur["pri"].op = "create"
                /\ Succeeded(last')
                /\ PyIn(Tombstone(ip), old))
               => /\ new = old \o <<ip>>
                  /\ PyIn(ip, ListIps("pri")')
            /\ (/\ cur["pri"].op = "delete"
                /\ Succeeded(last')
                /\ Len(old) > 0
                /\ old[Len(old)] = ip
                /\ ~ PyIn(ip, SubSeq(old, 1, Len(old) - 1)))
               => new = SubSeq(old, 1, Len(old) - 1) \o <<Tombstone(ip)>>
            /\ \A k \in 1..Len(old) :
                 Head(old[k]) = "#" => (k <= Len(new) /\ new[k] = old[k])
    ]_vars

\* create, delete, create and delete of '10.0.0.5' have all succeeded: the
\* store holds the two tombstones
C29_Witness ==
    /\ last.cls = "pri" /\ last.op = "delete" /\ Succeeded(last)
    /\ last.data.ip = IP_A
    /\ ReadLines(file["pri"]) = <<Tombstone(IP_A), Tombstone(IP_A)>>

(***************************************************************************)
(* ctdb.general.healthy over every status the daemon may report.           *)
(***************************************************************************)
\* nodes a reported status may list
MaxStatusNodes == 6

HealthStatusValues == UNION {[1..n -> Flags] : n \in 0..MaxStatusNodes}

InitHealth ==
    /\ ctdb = TRUE
    /\ glusterd = TRUE
    /\ mounted = TRUE
    /\ status = <<>>
    /\ daemonNodes = <<>>
    /\ daemonIps = <<>>
    /\ file = [c \in Classes |-> NoFile]
    /\ etc = [c \in Classes |-> "absent"]
    /\ cur = [c \in Classes |-> NoJob]
    /\ last = NoOp
    /\ queue = NoQueue
    /\ hist = NoHist
    /\ VolumeIdle

\* the daemon reports another status
StatusReported ==
    /\ ctdb
    /\ status' \in HealthStatusValues \ {status}
    /\ last' = NoOp
    /\ UNCHANGED <<ctdb, glusterd, mounted, daemonNodes, daemonIps, file, etc, cur,
                   jobVars, volVars>>

NextHealth == StatusReported

SpecHealth == InitHealth /\ [][NextHealth]_vars

AllNodesOk == \A i \in 1..Len(status) : status[i] = "OK"

\* C30: ctdb.general.healthy returns true if and only if every node of the
\* daemon's status reports 'OK', for every status list, the list with no
\* nodes included.
C30_HealthyIffAllOk == healthy <=> AllNodesOk

\* C30, amended: ctdb.general.healthy returns true if and only if the status
\* lists at least one node and every node of it reports 'OK'; for the list
\* with no nodes it returns false.
C30_HealthyIffSomeAndAllOk ==
    /\ healthy <=> (Len(status) >= 1 /\ AllNodesOk)
    /\ status = <<>> => ~ healthy

\* a status of several nodes, all 'OK', is healthy
C30_Witness ==
    /\ Len(status) >= 2
    /\ AllNodesOk
    /\ healthy

(***************************************************************************)
(* Further claims about the shared volume.                                 *)
(***************************************************************************)
\* C31: when a volume of the expected name exists and is not of REPLICATE
\* type, or has a replica count below 3 or fewer than 3 bricks, create fails
\* with the configuration error (CallError) and performs no volume create,
\* no volume start and no mount; when the existing volume has a valid
\* topology but is stopped, create starts it (and creates nothing).
C31_WrongTopologyRejected ==
    [][(VolumeCreate /\ glusterd /\ volume.exists) =>
        /\ ~ WellFormed(volume) =>
              /\ vlast'.op = "create"
              /\ vlast'.ret = "CallError"
              /\ vlast'.log = <<>>
              /\ volume' = volume
              /\ vjob' = vjob
        /\ (WellFormed(volume) /\ ~ volume.started) =>
              /\ volume' = [volume EXCEPT !.started = TRUE]
              /\ vjob'["create"].pc = "call"
              /\ vjob'["create"].log = <<"start">>
        /\ (WellFormed(volume) /\ volume.started) =>
              /\ volume' = volume
              /\ vjob'["create"].pc = "call"
              /\ vjob'["create"].log = <<>>
    ]_vars

\* create has failed on an existing volume of another topology, which is as
\* it was
C31_Witness ==
    /\ vlast.op = "create"
    /\ vlast.ret = "CallError"
    /\ glusterd
    /\ volume.exists
    /\ ~ WellFormed(volume)
    /\ \A op \in VolOps : ~ Running(op)

(***************************************************************************)
(* Further claims about the address registries: rejected mutations.        *)
(***************************************************************************)
\* C32: a rejected mutation changes nothing.  When a create or delete of
\* either class is rejected by validation (a precondition, address already
\* present, address absent, netmask, interface) or, for the private class,
\* by the health gate, the store file is not created if it did not exist,
\* its content is unchanged and the local path is left exactly as it was.
C32_RejectedMutationChangesNothing ==
    [][/\ \A c \in Classes :
            ((\E req \in Requests(c) : Begin(c, req))
                /\ cur' = cur
                /\ last'.exc = "ValidationErrors")
            => /\ file' = file
               /\ etc' = etc
       /\ (Update("pri") /\ PriHealthGate(file["pri"]))
            => /\ last'.exc = "CallError"
               /\ file' = file
               /\ etc' = etc
    ]_vars

\* a private job has been rejected by the health gate: the store exists, the
\* daemon runs and reports a node that is not 'OK'
C32_Witness ==
    /\ last.cls = "pri"
    /\ last.exc = "CallError"
    /\ file["pri"].exists
    /\ ctdb
    /\ ~ healthy
    /\ etc["pri"] = "link_canon"

\* C33: delete never removes a volume that is still mounted locally: volume
\* stop and volume delete are invoked only if the preceding unmount reported
\* success; when the unmount command fails for a reason other than 'not
\* mounted', delete aborts and the volume is neither stopped nor deleted.
\* Stated for the case the claim is about: a delete whose unmount job
\* returned False while the volume is mounted leaves the volume as it is.
C33_DeleteOnlyAfterUnmount ==
    [][(VolumeDeleteFinish /\ mounted /\ vjob["delete"].out = "False")
        => volume' = volume
    ]_vars

(***************************************************************************)
(* The shared volume jobs under fairness: a command that was invoked       *)
(* returns, a job whose steps are done returns, and a job waiting for a    *)
(* lock that is free again and again gets it (the jobs waiting for a lock  *)
(* start in arrival order).                                                *)
(***************************************************************************)
FairVolume ==
    /\ WF_vars(VolumeMountCommand)
    /\ WF_vars(VolumeMountFinally)
    /\ WF_vars(VolumeUmountCommand)
    /\ WF_vars(VolumeUmountFinally)
    /\ WF_vars(VolumeCreateReturn)
    /\ WF_vars(VolumeDeleteFinish)
    /\ SF_vars(VolumeMount("create"))
    /\ SF_vars(VolumeUmount("delete"))

SpecVolumeFair == InitVolume /\ [][NextVolume]_vars /\ FairVolume

\* C34: no deadlock between the locks of the volume jobs.  create and delete
\* hold the create/delete lock while they wait for a mount or umount job,
\* which needs the mount/umount lock only, and no mount or umount waits for
\* the create/delete lock: under any interleaving of create, delete, mount
\* and umount every job that started ends, the commands returning.
C34_EveryVolumeJobEnds ==
    \A op \in VolOps : Running(op) ~> ~ Running(op)

\* create holds the create/delete lock and waits for its mount job while a
\* umount called from outside holds the mount/umount lock
C34_Witness ==
    /\ vjob["create"].pc = "call"
    /\ Running("umount")
    /\ vjob["umount"].by = "user"

(***************************************************************************)
(* The shared volume jobs, glustereventsd running or stopped at first.     *)
(***************************************************************************)
InitEvents ==
    /\ ctdb = FALSE
    /\ status = <<>>
    /\ daemonNodes = <<>>
    /\ daemonIps = <<>>
    /\ file = [c \in Classes |-> NoFile]
    /\ etc = [c \in Classes |-> "absent"]
    /\ cur = [c \in Classes |-> NoJob]
    /\ last = NoOp
    /\ queue = NoQueue
    /\ hist = NoHist
    /\ glusterd \in BOOLEAN
    /\ volume \in InitVolumes
    /\ mounted \in BOOLEAN
    /\ mounted => volume.exists /\ volume.started
    /\ peers = [i \in 1..3 |-> [hostname |-> Hostname(i), connected |-> "Connected"]]
    /\ eventsd \in BOOLEAN
    /\ vjob = [op \in VolOps |-> NoVJob]
    /\ vlast = NoVLast

SpecEvents == InitEvents /\ [][NextVolume]_vars

\* C35: mount and umount preserve the run-state of the event service: it
\* runs after the call if and only if it ran before the call; a service
\* that was stopped beforehand is not left started.
C35_EventServiceStatePreserved ==
    [][/\ \A op \in {"mount", "umount"} :
            (Running(op) /\ ~ Running(op)') => (eventsd' <=> vjob[op].was)
       /\ \A by \in {"user", "create"} :
            (VolumeMount(by) /\ ~ Running("mount")') => (eventsd' <=> eventsd)
    ]_vars

====
